---------------------------- MODULE Spec2Model ----------------------------
(***************************************************************************)
(* A model of reduce.py: the conversion of GeoJSON line geometries into an *)
(* OSM file, with node snapping (OSMCreator.add_linestring) and recovery   *)
(* of road tags from the source map (OSMCreator.find_matching_tags).       *)
(*                                                                         *)
(* Coordinates are integers counting units of 1e-8 degree, so that raw     *)
(* coordinates finer than the 7-decimal snap precision exist in the model. *)
(* A coordinate is a pair <<lon, lat>>.  Python dicts are sequences of     *)
(* <<key, value>> pairs in insertion order.                                *)
(***************************************************************************)
EXTENDS Integers, Sequences, FiniteSets, TLC

VARIABLES
    pc,           \* position in __main__ / run_conversion
    argv_len,     \* len(sys.argv)
    out_file,     \* the output path on disk: "absent", "old" or "new"
    gj_type,      \* gj_data['type'] once the geometry file is loaded
    features,     \* the features of the geometry file iterated so far
    linestrings,  \* run_conversion's list of accepted lines
    nodes,        \* OSMDataExtractor.nodes
    ways,         \* OSMDataExtractor.ways
    writer,       \* OSMCreator.writer: "none", "open" or "closed"
    sink,         \* the objects handed to writer.add_node / writer.add_way
    node_id,      \* OSMCreator.node_id
    way_id,       \* OSMCreator.way_id
    node_cache,   \* OSMCreator.node_cache
    ls_pos        \* position of "for ls in linestrings"

vars == <<pc, argv_len, out_file, gj_type, features, linestrings, nodes, ways,
          writer, sink, node_id, way_id, node_cache, ls_pos>>

-----------------------------------------------------------------------------
(* Bounds of the model *)

MaxInput == 4      \* a whole run: line, source node and road coordinates together
MaxCoords == 4     \* the emitting stage alone: coordinates of all lines together
MaxEmit == 6       \* the emitting stage alone: line and road coordinates together
MaxRefs == 3       \* node references of one source way
MaxRoads == 2      \* entries of the source road index
MaxArgs == 5       \* len(sys.argv) ranges over 1..MaxArgs

\* A line that is not empty has two coordinates or more, so no more than
\* MaxCoords \div 2 lines of a document are not empty.
MaxFeatures == MaxCoords \div 2   \* features in the geometry file
MaxParts == MaxCoords \div 2      \* parts of one MultiLineString

-----------------------------------------------------------------------------
(* Input values *)

\* 5.0000001, 5.0000001
P1 == <<500000010, 500000010>>
\* 5.0000000, 5.0000002
P2 == <<500000000, 500000020>>
\* 5.00000012, 5.00000008: not on the 1e-7 grid, rounds to P1
P3 == <<500000012, 500000008>>
\* 5.0000010, 5.0000010: another 6-decimal cell
P4 == <<500000100, 500000100>>

Points == {P1, P2, P3, P4}

\* Source nodes: osmium locations lie on the 1e-7 grid.
SrcNodeIds == {1, 2}

SrcNodeLoc(n) == IF n = 1 THEN P1 ELSE P4

\* Source ways: the id and the tags of each; the references vary.
SrcWayIds == {10, 11, 12}

SrcWayTags(id) ==
    IF id = 10 THEN [highway |-> "primary"]
    ELSE IF id = 11 THEN [highway |-> "residential", oneway |-> "yes"]
    ELSE [building |-> "yes"]

-----------------------------------------------------------------------------
(* Python values *)

\* None, as the value of best_match_tags; a found dict d is <<d>>.
None == <<>>

SetOf(s) == {s[i] : i \in DOMAIN s}

\* k in d
DictHas(d, k) == \E i \in DOMAIN d : d[i][1] = k

\* d[k], for k in d
DictGet(d, k) == d[CHOOSE i \in DOMAIN d : d[i][1] = k][2]

\* d[k] = v: a new key goes last, an existing key keeps its place
DictSet(d, k, v) ==
    IF DictHas(d, k)
    THEN [i \in DOMAIN d |-> IF d[i][1] = k THEN <<k, v>> ELSE d[i]]
    ELSE Append(d, <<k, v>>)

\* round(x, ndigits) on a value counted in units of 1e-8, unit = 10^(8-ndigits):
\* the closest multiple of unit, the even one when two are equally close.
PyRound(x, unit) ==
    LET q == x \div unit
        r == x % unit
    IN  IF 2 * r < unit THEN q * unit
        ELSE IF 2 * r > unit THEN (q + 1) * unit
        ELSE IF q % 2 = 0 THEN q * unit ELSE (q + 1) * unit

\* 10^(8-6) and 10^(8-7)
Unit6 == 100
Unit7 == 10

RECURSIVE SumLen(_)
SumLen(ss) == IF ss = <<>> THEN 0 ELSE Len(Head(ss)) + SumLen(Tail(ss))

-----------------------------------------------------------------------------
(* OSMDataExtractor *)

\* coords of way(w): the references found in self.nodes, in order
RECURSIVE Resolve(_, _)
Resolve(refs, nds) ==
    IF refs = <<>> THEN <<>>
    ELSE IF DictHas(nds, Head(refs))
         THEN <<DictGet(nds, Head(refs))>> \o Resolve(Tail(refs), nds)
         ELSE Resolve(Tail(refs), nds)

\* a slip of the length test: one coordinate is enough
WayCallbackOne(wys, nds, id, refs, tags) ==
    IF "highway" \notin DOMAIN tags THEN wys
    ELSE LET coords == Resolve(refs, nds)
         IN  IF Len(coords) >= 1
             THEN DictSet(wys, id, [tags |-> tags, coords |-> coords])
             ELSE wys

\* self.ways after way(w)
WayCallback(wys, nds, id, refs, tags) ==
    IF "highway" \notin DOMAIN tags THEN wys
    ELSE LET coords == Resolve(refs, nds)
         IN  IF Len(coords) >= 2
             THEN DictSet(wys, id, [tags |-> tags, coords |-> coords])
             ELSE wys

-----------------------------------------------------------------------------
(* OSMCreator.find_matching_tags *)

Quantize6(c) == <<PyRound(c[1], Unit6), PyRound(c[2], Unit6)>>

QuantizeAll(cs) == [i \in DOMAIN cs |-> Quantize6(cs[i])]

\* score = len(set(ls_coords) & set(way_coords))
Score(ls_coords, way_coords) ==
    Cardinality(SetOf(ls_coords) \cap SetOf(way_coords))

\* ratio = score / len(ls_coords), as the fraction <<numerator, denominator>>
Ratio(score, ls_coords) == <<score, Len(ls_coords)>>

\* a slip of the comparison: a >= b
FracAtLeast(a, b) == a[1] * b[2] >= b[1] * a[2]

\* a > b for two fractions with positive denominators
FracGreater(a, b) == a[1] * b[2] > b[1] * a[2]

\* a slip of the threshold: max_score >= 0.5
AtLeastThreshold(max_score) == ~FracGreater(<<1, 2>>, max_score)

\* max_score > 0.5
AboveThreshold(max_score) == FracGreater(max_score, <<1, 2>>)

\* the division raises ZeroDivisionError: the loop body runs on an empty line
FindRaises(ls, osm_data) == Len(ls) = 0 /\ Len(osm_data) > 0

RECURSIVE ScanWays(_, _, _, _, _)
ScanWays(ls_coords, osm_data, i, best_match_tags, max_score) ==
    IF i > Len(osm_data)
    THEN [best_match_tags |-> best_match_tags, max_score |-> max_score]
    ELSE LET data == osm_data[i][2]
             way_coords == QuantizeAll(data.coords)
             score == Score(ls_coords, way_coords)
             ratio == Ratio(score, ls_coords)
         IN  IF FracGreater(ratio, max_score)
             THEN ScanWays(ls_coords, osm_data, i + 1, <<data.tags>>, ratio)
             ELSE ScanWays(ls_coords, osm_data, i + 1, best_match_tags, max_score)

\* The tags found, or None; defined when FindRaises is false.
find_matching_tags(ls, osm_data) ==
    LET r == ScanWays(QuantizeAll(ls), osm_data, 1, None, <<0, 1>>)
    IN  IF AboveThreshold(r.max_score) THEN r.best_match_tags ELSE None

-----------------------------------------------------------------------------
(* OSMCreator.add_linestring *)

\* a slip of the fallback: one tag only
FallbackTagsShort == [highway |-> "unclassified"]

FallbackTags ==
    [highway |-> "unclassified", oneway |-> "no", source |-> "custom_geojson"]

\* tags = self.find_matching_tags(linestring); if not tags: tags = {...}
TagsFor(ls, osm_data) ==
    LET tags == find_matching_tags(ls, osm_data)
    IN  IF tags = None \/ DOMAIN tags[1] = {} THEN FallbackTags ELSE tags[1]

\* slips of the snapping key: the raw coordinate, and 6 decimal places
SnapKeyRaw(lon, lat) == <<lon, lat>>

SnapKey6(lon, lat) == <<PyRound(lon, Unit6), PyRound(lat, Unit6)>>

\* coord_key = (round(lon, 7), round(lat, 7))
SnapKey(lon, lat) == <<PyRound(lon, Unit7), PyRound(lat, Unit7)>>

\* a slip of the location: the raw coordinate
NodeLocationRaw(coord_key, lon, lat) == <<lon, lat>>

\* the location given to the new node
NodeLocation(coord_key, lon, lat) == coord_key

NodeObject(id, location) ==
    [kind |-> "node", id |-> id, location |-> location,
     version |-> 1, visible |-> TRUE]

WayObject(id, node_refs, tags) ==
    [kind |-> "way", id |-> id, nodes |-> node_refs, tags |-> tags,
     version |-> 1, visible |-> TRUE]

\* a slip of the counter: an id is skipped
NextNodeIdSkip(id) == id + 2

\* self.node_id += 1
NextNodeId(id) == id + 1

\* self.way_id += 1
NextWayId(id) == id + 1

\* a slip of the reference list: a revisited vertex is not repeated
AppendRefOnce(way_node_refs, cache, coord_key) ==
    IF DictGet(cache, coord_key) \in SetOf(way_node_refs) THEN way_node_refs
    ELSE Append(way_node_refs, DictGet(cache, coord_key))

\* way_node_refs.append(self.node_cache[coord_key])
AppendRef(way_node_refs, cache, coord_key) ==
    Append(way_node_refs, DictGet(cache, coord_key))

\* a slip of the cache test: a node is written at every occurrence
SnapCoordinateAlways(st, lon, lat) ==
    LET coord_key == SnapKey(lon, lat)
        st1 == [st EXCEPT
                  !.written = Append(@, NodeObject(st.next,
                                      NodeLocation(coord_key, lon, lat))),
                  !.cache = DictSet(@, coord_key, st.next),
                  !.next = NextNodeId(@)]
    IN  [st1 EXCEPT !.refs = AppendRef(@, st1.cache, coord_key)]

\* One turn of "for lon, lat in linestring.coords" on the state
\* st = [cache, next, written, refs]
SnapCoordinate(st, lon, lat) ==
    LET coord_key == SnapKey(lon, lat)
        st1 == IF ~DictHas(st.cache, coord_key)
               THEN [st EXCEPT
                       !.written = Append(@, NodeObject(st.next,
                                           NodeLocation(coord_key, lon, lat))),
                       !.cache = DictSet(@, coord_key, st.next),
                       !.next = NextNodeId(@)]
               ELSE st
    IN  [st1 EXCEPT !.refs = AppendRef(@, st1.cache, coord_key)]

\* a slip of the loop: the new nodes never reach the writer
RECURSIVE SnapLoopNoWrite(_, _, _)
SnapLoopNoWrite(coords, i, st) ==
    IF i > Len(coords) THEN st
    ELSE LET s == SnapCoordinate(st, coords[i][1], coords[i][2])
         IN  SnapLoopNoWrite(coords, i + 1, [s EXCEPT !.written = st.written])

RECURSIVE SnapLoop(_, _, _)
SnapLoop(coords, i, st) ==
    IF i > Len(coords) THEN st
    ELSE SnapLoop(coords, i + 1, SnapCoordinate(st, coords[i][1], coords[i][2]))

-----------------------------------------------------------------------------
(* The geometry file *)

LinesOfLen(n) == [1..n -> Points]

\* a LineString of 0 coordinates is empty, of 1 coordinate is rejected by shape()
LineStringGeoms(b) ==
    {[type |-> "LineString", parts |-> <<l>>] :
        l \in UNION {LinesOfLen(n) : n \in 0..b}}

RECURSIVE PartSeqs(_, _)
PartSeqs(k, b) ==
    {<<>>} \cup
    (IF k = 0 THEN {}
     ELSE UNION {{<<l>> \o rest : rest \in PartSeqs(k - 1, b - Len(l))} :
                    l \in UNION {LinesOfLen(n) : n \in 2..b}})

MultiLineStringGeoms(b) ==
    {[type |-> "MultiLineString", parts |-> ps] : ps \in PartSeqs(MaxParts, b)}

PointGeoms(b) ==
    IF b >= 1 THEN {[type |-> "Point", parts |-> <<<<P1>>>>]} ELSE {}

\* the geometries of at most MaxInput coordinates
AllGeoms ==
    LineStringGeoms(MaxInput) \cup MultiLineStringGeoms(MaxInput)
        \cup PointGeoms(MaxInput)

GeomSize(g) == SumLen(g.parts)

RECURSIVE DocCoords(_)
DocCoords(fs) ==
    IF fs = <<>> THEN 0 ELSE GeomSize(Head(fs)) + DocCoords(Tail(fs))

\* shape(f['geometry']) raises
ShapeRaises(g) == g.type = "LineString" /\ Len(g.parts[1]) = 1

\* the geometries of at most b coordinates that shape() accepts, and rejects
GoodGeoms ==
    [b \in 0..MaxInput |->
        {g \in AllGeoms : GeomSize(g) <= b /\ ~ShapeRaises(g)}]

BadGeoms ==
    [b \in 0..MaxInput |->
        {g \in AllGeoms : GeomSize(g) <= b /\ ShapeRaises(g)}]

\* a slip of the loop: a MultiLineString is skipped
AcceptGeometryLineOnly(lss, g) ==
    IF g.type = "LineString" THEN Append(lss, g.parts[1]) ELSE lss

\* linestrings after one turn of "for f in features"
AcceptGeometry(lss, g) ==
    IF g.type = "LineString" THEN Append(lss, g.parts[1])
    ELSE IF g.type = "MultiLineString" THEN lss \o g.parts
    ELSE lss

RECURSIVE RoadCoords(_)
RoadCoords(wys) ==
    IF wys = <<>> THEN 0
    ELSE Len(Head(wys)[2].coords) + RoadCoords(Tail(wys))

\* the size of what has been read from the two input files
InputSize(fs, nds, wys) == DocCoords(fs) + Len(nds) + RoadCoords(wys)

RefSeqs == UNION {[1..n -> SrcNodeIds] : n \in 1..MaxRefs}

-----------------------------------------------------------------------------
(* The program *)

Init ==
    /\ pc = "main"
    /\ argv_len \in 1..MaxArgs
    /\ out_file \in {"absent", "old"}
    /\ gj_type = "unread"
    /\ features = <<>>
    /\ linestrings = <<>>
    /\ nodes = <<>>
    /\ ways = <<>>
    /\ writer = "none"
    /\ sink = <<>>
    /\ node_id = 0
    /\ way_id = 0
    /\ node_cache = <<>>
    /\ ls_pos = 0

\* a slip of the argument test: run_conversion is entered all the same
MainUsageRuns ==
    /\ pc = "main"
    /\ argv_len # 4
    /\ pc' = "remove"
    /\ UNCHANGED <<argv_len, out_file, gj_type, features, linestrings, nodes,
                   ways, writer, sink, node_id, way_id, node_cache, ls_pos>>

\* __main__ with a wrong argument count: print the usage string
MainUsage ==
    /\ pc = "main"
    /\ argv_len # 4
    /\ pc' = "usage"
    /\ UNCHANGED <<argv_len, out_file, gj_type, features, linestrings, nodes,
                   ways, writer, sink, node_id, way_id, node_cache, ls_pos>>

\* __main__ calls run_conversion
MainRun ==
    /\ pc = "main"
    /\ argv_len = 4
    /\ pc' = "remove"
    /\ UNCHANGED <<argv_len, out_file, gj_type, features, linestrings, nodes,
                   ways, writer, sink, node_id, way_id, node_cache, ls_pos>>

\* a slip of the overwrite: the existing output file is left in place
RemoveExistingKeeps ==
    /\ pc = "remove"
    /\ pc' = "load"
    /\ UNCHANGED <<argv_len, out_file, gj_type, features, linestrings, nodes,
                   ways, writer, sink, node_id, way_id, node_cache, ls_pos>>

\* if os.path.exists(output_pbf): os.remove(output_pbf)
RemoveExisting ==
    /\ pc = "remove"
    /\ out_file' = IF out_file = "old" THEN "absent" ELSE out_file
    /\ pc' = "load"
    /\ UNCHANGED <<argv_len, gj_type, features, linestrings, nodes, ways,
                   writer, sink, node_id, way_id, node_cache, ls_pos>>

\* open, json.load and gj_data['type'] succeed
LoadGeojson ==
    /\ pc = "load"
    /\ \E t \in {"FeatureCollection", "Feature"} : gj_type' = t
    /\ pc' = "parse"
    /\ UNCHANGED <<argv_len, out_file, features, linestrings, nodes, ways,
                   writer, sink, node_id, way_id, node_cache, ls_pos>>

\* the geometry file is missing or is not a JSON object with a type
LoadGeojsonRaises ==
    /\ pc = "load"
    /\ gj_type' = "malformed"
    /\ pc' = "failed"
    /\ UNCHANGED <<argv_len, out_file, features, linestrings, nodes, ways,
                   writer, sink, node_id, way_id, node_cache, ls_pos>>

\* a single Feature is iterated as the list [gj_data]
MoreFeatures ==
    /\ Len(features) < MaxFeatures
    /\ gj_type = "Feature" => features = <<>>

\* one turn of "for f in features"
ParseFeature ==
    /\ pc = "parse"
    /\ MoreFeatures
    /\ \E g \in GoodGeoms[MaxInput - DocCoords(features)] :
        /\ features' = Append(features, g)
        /\ linestrings' = AcceptGeometry(linestrings, g)
    /\ UNCHANGED <<pc, argv_len, out_file, gj_type, nodes, ways, writer, sink,
                   node_id, way_id, node_cache, ls_pos>>

\* shape() rejects the geometry of a feature
ParseFeatureRaises ==
    /\ pc = "parse"
    /\ MoreFeatures
    /\ \E g \in BadGeoms[MaxInput - DocCoords(features)] :
        /\ features' = Append(features, g)
    /\ pc' = "failed"
    /\ UNCHANGED <<argv_len, out_file, gj_type, linestrings, nodes, ways,
                   writer, sink, node_id, way_id, node_cache, ls_pos>>

\* the loop over features ends
ParseDone ==
    /\ pc = "parse"
    /\ gj_type = "Feature" => Len(features) = 1
    /\ pc' = "extract"
    /\ UNCHANGED <<argv_len, out_file, gj_type, features, linestrings, nodes,
                   ways, writer, sink, node_id, way_id, node_cache, ls_pos>>

\* extractor.apply_file cannot read the map file
ApplyFileRaises ==
    /\ pc = "extract"
    /\ nodes = <<>> /\ ways = <<>>
    /\ pc' = "failed"
    /\ UNCHANGED <<argv_len, out_file, gj_type, features, linestrings, nodes,
                   ways, writer, sink, node_id, way_id, node_cache, ls_pos>>

\* a slip of the order: the map file is read before the geometry file
nodeBeforeLoad ==
    /\ pc = "load"
    /\ \E n \in SrcNodeIds :
        /\ nodes' = DictSet(nodes, n, SrcNodeLoc(n))
        /\ InputSize(features, nodes', ways) <= MaxInput
    /\ UNCHANGED <<pc, argv_len, out_file, gj_type, features, linestrings,
                   ways, writer, sink, node_id, way_id, node_cache, ls_pos>>

\* OSMDataExtractor.node
node ==
    /\ pc = "extract"
    /\ \E n \in SrcNodeIds :
        /\ nodes' = DictSet(nodes, n, SrcNodeLoc(n))
        /\ InputSize(features, nodes', ways) <= MaxInput
    /\ UNCHANGED <<pc, argv_len, out_file, gj_type, features, linestrings,
                   ways, writer, sink, node_id, way_id, node_cache, ls_pos>>

\* OSMDataExtractor.way
way ==
    /\ pc = "extract"
    /\ \E id \in SrcWayIds, refs \in RefSeqs :
        /\ ways' = WayCallback(ways, nodes, id, refs, SrcWayTags(id))
        /\ Len(ways') <= MaxRoads
        /\ InputSize(features, nodes, ways') <= MaxInput
    /\ UNCHANGED <<pc, argv_len, out_file, gj_type, features, linestrings,
                   nodes, writer, sink, node_id, way_id, node_cache, ls_pos>>

\* apply_file returns
ApplyFileDone ==
    /\ pc = "extract"
    /\ pc' = "create"
    /\ UNCHANGED <<argv_len, out_file, gj_type, features, linestrings, nodes,
                   ways, writer, sink, node_id, way_id, node_cache, ls_pos>>

\* OSMCreator.__init__: the writer creates the output file
OSMCreator_init ==
    /\ pc = "create"
    /\ writer' = "open"
    /\ out_file' = "new"
    /\ node_id' = 1
    /\ way_id' = 1
    /\ node_cache' = <<>>
    /\ ls_pos' = 1
    /\ pc' = "emit"
    /\ UNCHANGED <<argv_len, gj_type, features, linestrings, nodes, ways, sink>>

\* OSMCreator.add_linestring on the next line
add_linestring ==
    /\ pc = "emit"
    /\ ls_pos <= Len(linestrings)
    /\ LET linestring == linestrings[ls_pos]
       IN  /\ ~FindRaises(linestring, ways)
           /\ LET tags == TagsFor(linestring, ways)
                  st == SnapLoop(linestring, 1,
                                 [cache |-> node_cache, next |-> node_id,
                                  written |-> sink, refs |-> <<>>])
              IN  /\ sink' = Append(st.written, WayObject(way_id, st.refs, tags))
                  /\ node_cache' = st.cache
                  /\ node_id' = st.next
                  /\ way_id' = NextWayId(way_id)
    /\ ls_pos' = ls_pos + 1
    /\ UNCHANGED <<pc, argv_len, out_file, gj_type, features, linestrings,
                   nodes, ways, writer>>

\* find_matching_tags raises ZeroDivisionError out of add_linestring and of
\* run_conversion
add_linestring_raises ==
    /\ pc = "emit"
    /\ ls_pos <= Len(linestrings)
    /\ FindRaises(linestrings[ls_pos], ways)
    /\ pc' = "failed"
    /\ UNCHANGED <<argv_len, out_file, gj_type, features, linestrings, nodes,
                   ways, writer, sink, node_id, way_id, node_cache, ls_pos>>

\* a slip of the end: the creator is made anew after the last line
closeAndRestart ==
    /\ pc = "emit"
    /\ ls_pos > Len(linestrings)
    /\ writer' = "closed"
    /\ pc' = "create"
    /\ UNCHANGED <<argv_len, out_file, gj_type, features, linestrings, nodes,
                   ways, sink, node_id, way_id, node_cache, ls_pos>>

\* OSMCreator.close, after the loop over linestrings
close ==
    /\ pc = "emit"
    /\ ls_pos > Len(linestrings)
    /\ writer' = "closed"
    /\ pc' = "done"
    /\ UNCHANGED <<argv_len, out_file, gj_type, features, linestrings, nodes,
                   ways, sink, node_id, way_id, node_cache, ls_pos>>

Next ==
    \/ MainUsage
    \/ MainRun
    \/ RemoveExisting
    \/ LoadGeojson
    \/ LoadGeojsonRaises
    \/ ParseFeature
    \/ ParseFeatureRaises
    \/ ParseDone
    \/ ApplyFileRaises
    \/ node
    \/ way
    \/ ApplyFileDone
    \/ OSMCreator_init
    \/ add_linestring
    \/ add_linestring_raises
    \/ close

Spec == Init /\ [][Next]_vars

-----------------------------------------------------------------------------
(* The emitting stage alone, from every loaded state within the bounds:      *)
(* run_conversion has read both files and is about to create the OSMCreator. *)

\* sequences of at most k lines, empty or of two coordinates or more, of at
\* most b coordinates together
RECURSIVE LineSeqs(_, _)
LineSeqs(k, b) ==
    {<<>>} \cup
    (IF k = 0 THEN {}
     ELSE UNION {{<<l>> \o rest : rest \in LineSeqs(k - 1, b - Len(l))} :
                    l \in UNION {LinesOfLen(n) : n \in {0} \cup 2..b}})

\* a source file whose nodes are all read before its ways
AllNodes == [i \in 1..Cardinality(SrcNodeIds) |->
                LET n == CHOOSE m \in SrcNodeIds :
                            Cardinality({x \in SrcNodeIds : x < m}) = i - 1
                IN  <<n, SrcNodeLoc(n)>>]

\* the road indexes OSMDataExtractor.way builds from at most k ways, of at
\* most b coordinates together
RECURSIVE Indexes(_, _)
Indexes(k, b) ==
    IF k = 0 THEN {<<>>}
    ELSE LET prev == Indexes(k - 1, b)
         IN  prev \cup
             {ix \in {WayCallback(p, AllNodes, id, refs, SrcWayTags(id)) :
                         p \in prev, id \in SrcWayIds, refs \in RefSeqs} :
                 RoadCoords(ix) <= b}

AllLineSeqs == LineSeqs(MaxFeatures, MaxCoords)

AllIndexes == Indexes(MaxRoads, MaxEmit)

InitEmit ==
    /\ pc = "create"
    /\ argv_len = 4
    /\ out_file = "absent"
    /\ gj_type = "FeatureCollection"
    /\ linestrings \in AllLineSeqs
    /\ features = [i \in DOMAIN linestrings |->
                      [type |-> "LineString", parts |-> <<linestrings[i]>>]]
    /\ nodes = AllNodes
    /\ ways \in {ix \in AllIndexes :
                   SumLen(linestrings) + RoadCoords(ix) <= MaxEmit}
    /\ writer = "none"
    /\ sink = <<>>
    /\ node_id = 0
    /\ way_id = 0
    /\ node_cache = <<>>
    /\ ls_pos = 0

NextEmit ==
    \/ OSMCreator_init
    \/ add_linestring
    \/ add_linestring_raises
    \/ close

SpecEmit == InitEmit /\ [][NextEmit]_vars

-----------------------------------------------------------------------------
(* What the claims speak of *)

IsNode(o) == o.kind = "node"

IsWay(o) == o.kind = "way"

\* the nodes and the ways written so far, each in write order
WrittenNodes == SelectSeq(sink, IsNode)

WrittenWays == SelectSeq(sink, IsWay)

\* a coordinate with each component rounded at 7 decimal places
Round7(c) == <<PyRound(c[1], 10), PyRound(c[2], 10)>>

\* the set of distinct coordinates of a sequence, each rounded at 6 places
Cells(cs) == {<<PyRound(cs[i][1], 100), PyRound(cs[i][2], 100)>> : i \in DOMAIN cs}

RECURSIVE Concat(_)
Concat(ss) == IF ss = <<>> THEN <<>> ELSE Head(ss) \o Concat(Tail(ss))

\* the coordinates of the lines add_linestring has emitted, in order
EmittedCoords == Concat(SubSeq(linestrings, 1, Len(WrittenWays)))

\* the node ids of the written ways, in order
EmittedRefs == Concat([k \in DOMAIN WrittenWays |-> WrittenWays[k].nodes])

\* the place in a sequence where a value first stands
FirstPos(s, v) ==
    CHOOSE p \in DOMAIN s : s[p] = v /\ \A q \in 1..(p - 1) : s[q] # v

\* C1: within one run, two coordinates that round alike at 7 decimal places,
\* component by component, carry the same node id in the written ways,
\* whichever lines they belong to and whatever the order of the lines.
C1_SnappingIdempotence ==
    LET W == WrittenWays
    IN  \A a \in DOMAIN W, b \in DOMAIN W :
            \A i \in DOMAIN linestrings[a], j \in DOMAIN linestrings[b] :
                Round7(linestrings[a][i]) = Round7(linestrings[b][j])
                    => /\ i \in DOMAIN W[a].nodes
                       /\ j \in DOMAIN W[b].nodes
                       /\ W[a].nodes[i] = W[b].nodes[j]

\* two lines hold different raw coordinates that round alike and share an id
C1_Witness ==
    LET W == WrittenWays
    IN  \E a \in DOMAIN W, b \in DOMAIN W :
            /\ a # b
            /\ \E i \in DOMAIN linestrings[a], j \in DOMAIN linestrings[b] :
                /\ linestrings[a][i] # linestrings[b][j]
                /\ Round7(linestrings[a][i]) = Round7(linestrings[b][j])
                /\ W[a].nodes[i] = W[b].nodes[j]

\* C2: once the creator exists, the written nodes have the ids 1..K in write
\* order, K being the number of distinct 7-decimal keys among the coordinates
\* emitted so far; the ids follow the order in which the keys were first
\* seen, and the counter node_id is K + 1.
C2_NodeIdMonotonic ==
    writer # "none" =>
        LET N == WrittenNodes
            KeySeq == [p \in DOMAIN EmittedCoords |-> Round7(EmittedCoords[p])]
            K == Cardinality(SetOf(KeySeq))
        IN  /\ Len(N) = K
            /\ \A i \in 1..K : N[i].id = i
            /\ node_id = K + 1
            /\ Len(node_cache) = K
            /\ \A i \in 1..K :
                /\ node_cache[i][2] = i
                /\ node_cache[i][1] \in SetOf(KeySeq)
            /\ \A i \in 1..K, j \in 1..K :
                i < j => FirstPos(KeySeq, node_cache[i][1])
                           < FirstPos(KeySeq, node_cache[j][1])

\* all lines are emitted, with a key seen twice and three keys or more
C2_Witness ==
    /\ pc = "done"
    /\ Len(WrittenNodes) >= 3
    /\ Len(EmittedCoords) > Len(WrittenNodes)

\* the lines a document holds: one of a LineString, one per part of a
\* MultiLineString in part order, none of another geometry
RECURSIVE ExpectedLines(_)
ExpectedLines(fs) ==
    IF fs = <<>> THEN <<>>
    ELSE (IF Head(fs).type = "LineString" THEN <<Head(fs).parts[1]>>
          ELSE IF Head(fs).type = "MultiLineString" THEN Head(fs).parts
          ELSE <<>>) \o ExpectedLines(Tail(fs))

\* C3: the written ways have the ids 1, 2, ... in write order, the k-th being
\* the way of the k-th accepted line of the document, and a run that ends
\* has written M ways, M the number of accepted lines.
C3_WayIdMonotonic ==
    LET W == WrittenWays
        L == ExpectedLines(features)
    IN  /\ Len(W) <= Len(L)
        /\ \A k \in DOMAIN W :
            /\ W[k].id = k
            /\ Len(W[k].nodes) = Len(L[k])
            /\ \A i \in DOMAIN W[k].nodes :
                /\ DictHas(node_cache, Round7(L[k][i]))
                /\ W[k].nodes[i] = DictGet(node_cache, Round7(L[k][i]))
        /\ pc = "done" => Len(W) = Len(L)

\* a run ends on a document that holds a MultiLineString of two parts
C3_Witness ==
    /\ pc = "done"
    /\ \E f \in DOMAIN features :
        features[f].type = "MultiLineString" /\ Len(features[f].parts) = 2
    /\ Len(WrittenWays) = 2
    /\ WrittenWays[2].id = 2

\* C4, as claimed: the location of every written node is the raw coordinate
\* of the first occurrence that produced it.
C4_RawLocation ==
    LET N == WrittenNodes
        Refs == EmittedRefs
        Coords == EmittedCoords
    IN  \A n \in DOMAIN N :
            /\ N[n].id \in SetOf(Refs)
            /\ N[n].location = Coords[FirstPos(Refs, N[n].id)]

\* C4, amended: the location of every written node is the coordinate of the
\* first occurrence that produced it, rounded at 7 decimal places.
C4_RoundedLocation ==
    LET N == WrittenNodes
        Refs == EmittedRefs
        Coords == EmittedCoords
    IN  /\ Len(Refs) = Len(Coords)
        /\ \A n \in DOMAIN N :
            /\ N[n].id \in SetOf(Refs)
            /\ N[n].location = Round7(Coords[FirstPos(Refs, N[n].id)])

\* a node is written for a first occurrence that is not on the 1e-7 grid
C4_Witness ==
    LET N == WrittenNodes
        Refs == EmittedRefs
        Coords == EmittedCoords
    IN  \E n \in DOMAIN N :
            /\ N[n].id \in SetOf(Refs)
            /\ N[n].location # Coords[FirstPos(Refs, N[n].id)]

\* the roads of the source index
Roads == {ways[i][2] : i \in DOMAIN ways}

\* |L /\ R| for a line and a road, on coordinates rounded at 6 places
Overlap(l, r) == Cardinality(Cells(l) \cap Cells(r.coords))

\* the ratio |L /\ R| / |L| of a line and a road exceeds 0.5
DistinctRatioAboveHalf(l, r) == 2 * Overlap(l, r) > Cardinality(Cells(l))

\* the road has the highest overlap with the line
BestOverlap(l, r) == \A o \in Roads : Overlap(l, o) <= Overlap(l, r)

\* C5, as claimed: the ratio is |L /\ R| / |L| with L the set of distinct
\* quantized coordinates of the line, so every line of which more than half
\* of the distinct coordinates lie on a road gets the tags of a road of
\* highest overlap.
C5_DistinctRatio ==
    LET W == WrittenWays
    IN  \A k \in DOMAIN W :
            (\E r \in Roads : DistinctRatioAboveHalf(linestrings[k], r))
                => \E r \in Roads :
                    W[k].tags = r.tags /\ BestOverlap(linestrings[k], r)

C7_FallbackComplete ==
    LET W == WrittenWays
    IN  \A k \in DOMAIN W :
            /\ DOMAIN W[k].tags # {}
            /\ \/ \E r \in Roads : W[k].tags = r.tags
               \/ W[k].tags = [highway |-> "unclassified", oneway |-> "no",
                               source |-> "custom_geojson"]
            /\ ( \/ ways = <<>>
                 \/ \A r \in Roads : Overlap(linestrings[k], r) = 0
                 \/ \A r \in Roads :
                        ~DistinctRatioAboveHalf(linestrings[k], r) )
                => W[k].tags = [highway |-> "unclassified", oneway |-> "no",
                                source |-> "custom_geojson"]

\* a line that no road of a non-empty index overlaps has got the fallback tags
C7_Witness ==
    LET W == WrittenWays
    IN  \E k \in DOMAIN W :
            /\ Roads # {}
            /\ \A r \in Roads : Overlap(linestrings[k], r) = 0
            /\ W[k].tags = [highway |-> "unclassified", oneway |-> "no",
                            source |-> "custom_geojson"]

\* C8: the node ids of a written way are one per coordinate of its line, in
\* order, each the id of the 7-decimal key of that coordinate; nothing is
\* dropped when the line comes back to a vertex.
C8_OneRefPerCoordinate ==
    LET W == WrittenWays
    IN  \A k \in DOMAIN W :
            /\ Len(W[k].nodes) = Len(linestrings[k])
            /\ \A i \in DOMAIN linestrings[k] :
                /\ DictHas(node_cache, Round7(linestrings[k][i]))
                /\ W[k].nodes[i] = DictGet(node_cache, Round7(linestrings[k][i]))

\* a way repeats an id, its line coming back to a vertex
C8_Witness ==
    LET W == WrittenWays
    IN  \E k \in DOMAIN W :
            /\ Len(W[k].nodes) = Len(linestrings[k])
            /\ \E i \in DOMAIN linestrings[k], j \in DOMAIN linestrings[k] :
                i + 1 < j /\ W[k].nodes[i] = W[k].nodes[j]

\* the node ids two lines give to the endpoints (5.0000001, 5.0000001) and
\* (5.0000000, 5.0000002)
EndpointIds ==
    LET W == WrittenWays
    IN  UNION {
          {<<W[t[1]].nodes[p[1]], W[t[2]].nodes[p[2]]>> :
              p \in {q \in (DOMAIN linestrings[t[1]]) \X (DOMAIN linestrings[t[2]]) :
                        /\ linestrings[t[1]][q[1]] = <<500000010, 500000010>>
                        /\ linestrings[t[2]][q[2]] = <<500000000, 500000020>>}} :
          t \in {u \in (DOMAIN W) \X (DOMAIN W) : u[1] # u[2]}}

\* C9, as claimed: the two endpoints get the same node id.
C9_SameNode == \A e \in EndpointIds : e[1] = e[2]

\* C9, amended: the two endpoints round to the different keys
\* (5.0000001, 5.0000001) and (5.0000000, 5.0000002) and get different ids.
C9_DistinctNodes ==
    /\ Round7(<<500000010, 500000010>>) = <<500000010, 500000010>>
    /\ Round7(<<500000000, 500000020>>) = <<500000000, 500000020>>
    /\ \A e \in EndpointIds : e[1] # e[2]

\* two lines with these endpoints are emitted
C9_Witness == pc = "done" /\ EndpointIds # {}

\* C10, as claimed: a run that has ended has not left the writer open.
C10_SinkReleased == pc \in {"done", "failed", "usage"} => writer # "open"

\* C11, as claimed: no line aborts the run. A run never fails with a line
\* still to emit, whatever the line and the index, and every line taken from
\* the list has put exactly one way in the sink.
C11_NoPerLineAbort ==
    /\ ~(pc = "failed" /\ ls_pos \in DOMAIN linestrings)
    /\ pc \in {"emit", "done"} => Len(WrittenWays) = ls_pos - 1

\* C12: with len(sys.argv) other than 4 the program prints the usage string
\* and stops: run_conversion is not entered, the output file is neither
\* deleted nor created, nothing is read and nothing is written.
C12_UsageError ==
    /\ [](argv_len # 4 =>
            /\ pc \in {"main", "usage"}
            /\ gj_type = "unread" /\ features = <<>> /\ linestrings = <<>>
            /\ nodes = <<>> /\ ways = <<>>
            /\ writer = "none" /\ sink = <<>>)
    /\ [][argv_len # 4 =>
            /\ pc = "main" /\ pc' = "usage"
            /\ UNCHANGED <<argv_len, out_file, gj_type, features, linestrings,
                           nodes, ways, writer, sink>>]_vars

\* the usage string is printed and an existing output file is still there
C12_Witness == pc = "usage" /\ argv_len = 5 /\ out_file = "old"

\* the roads of the index whose overlap with the line is the highest
BestRoads(l) == {i \in DOMAIN ways : BestOverlap(l, ways[i][2])}

\* C13: a way that carries the tags of a road carries those of the first
\* road, in the order of the index, among the roads of highest ratio; a
\* later road of the same ratio does not replace it.
C13_FirstSeenWins ==
    LET W == WrittenWays
    IN  \A k \in DOMAIN W :
            "source" \notin DOMAIN W[k].tags =>
                LET B == BestRoads(linestrings[k])
                    first == CHOOSE i \in B : \A j \in B : i <= j
                IN  B # {} /\ W[k].tags = ways[first][2].tags

\* two roads of different tags tie for a line, which has got the first's tags
C13_Witness ==
    LET W == WrittenWays
    IN  \E k \in DOMAIN W :
            LET B == BestRoads(linestrings[k])
            IN  /\ "source" \notin DOMAIN W[k].tags
                /\ \E i \in B, j \in B :
                    /\ i < j
                    /\ ways[i][2].tags # ways[j][2].tags
                    /\ W[k].tags = ways[i][2].tags

\* the 7-decimal keys of the coordinates emitted so far
EmittedKeys == {Round7(EmittedCoords[p]) : p \in DOMAIN EmittedCoords}

\* C14: every distinct key among the emitted coordinates has caused exactly
\* one node write, so that a later occurrence of a key writes nothing; the
\* index from keys to ids holds each key once, and a step only adds entries
\* to it and writes to the sink, never removing or changing what is there.
C14_OneWritePerKey ==
    /\ [](LET N == WrittenNodes
          IN  /\ Len(N) = Cardinality(EmittedKeys)
              /\ Len(node_cache) = Cardinality(EmittedKeys)
              /\ \A key \in EmittedKeys :
                  /\ Cardinality({i \in DOMAIN node_cache :
                                     node_cache[i][1] = key}) = 1
                  /\ Cardinality({n \in DOMAIN N :
                                     N[n].id = DictGet(node_cache, key)}) = 1)
    /\ [][/\ Len(node_cache') >= Len(node_cache)
          /\ SubSeq(node_cache', 1, Len(node_cache)) = node_cache
          /\ Len(sink') >= Len(sink)
          /\ SubSeq(sink', 1, Len(sink)) = sink]_vars

\* a key comes again in a second line, after its node was written for the first
C14_Witness ==
    /\ Len(WrittenWays) = 2
    /\ \E i \in DOMAIN linestrings[1], j \in DOMAIN linestrings[2] :
        Round7(linestrings[1][i]) = Round7(linestrings[2][j])
    /\ Len(WrittenNodes) < Len(EmittedCoords)
    /\ Len(WrittenNodes) = Len(node_cache)

\* the state of the pipeline: 0 Idle (the inputs are being read), 1 IndexBuilt,
\* 2 Emitting, 3 Closed, 4 stopped by the usage message or by an exception
Stage ==
    IF pc \in {"main", "remove", "load", "parse", "extract"} THEN 0
    ELSE IF pc = "create" THEN 1
    ELSE IF pc = "emit" THEN 2
    ELSE IF pc = "done" THEN 3
    ELSE 4

\* C15: the pipeline goes Idle, IndexBuilt, Emitting, Closed, one state at a
\* time and never back; the sink is written only while Emitting, with the
\* writer open and the index built and no longer changing, and nothing is
\* written once the writer is closed.
C15_LinearPipeline ==
    /\ [](/\ sink # <<>> => Stage >= 2
          /\ writer = "closed" <=> Stage = 3)
    /\ [][/\ Stage' >= Stage
          /\ Stage' # Stage => (Stage' = Stage + 1 \/ Stage' = 4)
          /\ sink' # sink => (Stage = 2 /\ Stage' = 2 /\ writer = "open")
          /\ (ways' # ways \/ nodes' # nodes) => (Stage = 0 /\ Stage' = 0)
          /\ writer = "closed" => (sink' = sink /\ writer' = "closed")]_vars

\* a run has read the map file, written nodes and a way, and closed the writer
C15_Witness ==
    /\ pc = "done"
    /\ writer = "closed"
    /\ nodes # <<>>
    /\ Len(WrittenNodes) >= 2
    /\ Len(WrittenWays) >= 1

\* C16, as claimed: the map file is read first, so that while it is being
\* read the geometry file has not been opened yet.
C16_IndexBeforeGeometry == pc = "extract" => gj_type = "unread"

\* C16, amended: the geometry file is loaded and parsed first and the map
\* file is read after it. While the map file is being read the document is
\* loaded and no longer changes; as long as the geometry file is unread,
\* malformed or holds a geometry that is rejected, nothing of the map file
\* has been read.
C16_GeometryBeforeIndex ==
    /\ [](pc = "extract" => gj_type \in {"FeatureCollection", "Feature"})
    /\ []((\/ gj_type \in {"unread", "malformed"}
           \/ \E f \in DOMAIN features :
                 /\ features[f].type = "LineString"
                 /\ Len(features[f].parts[1]) = 1)
             => nodes = <<>> /\ ways = <<>>)
    /\ [][/\ (nodes' # nodes \/ ways' # ways) =>
                /\ gj_type \in {"FeatureCollection", "Feature"}
                /\ UNCHANGED <<gj_type, features, linestrings>>
          /\ (gj_type' # gj_type \/ features' # features) =>
                nodes = <<>> /\ ways = <<>>]_vars

\* the map file is being read with the lines of the document already parsed
C16_Witness ==
    /\ pc = "extract"
    /\ linestrings # <<>>
    /\ nodes # <<>>

\* the point references of a path that are known points, in path order
KnownRefs(refs) ==
    SelectSeq(refs, LAMBDA r : \E i \in DOMAIN nodes : nodes[i][1] = r)

\* the coordinates of the known points of a path, in path order
KnownCoords(refs) ==
    [p \in DOMAIN KnownRefs(refs) |->
        nodes[CHOOSE i \in DOMAIN nodes : nodes[i][1] = KnownRefs(refs)[p]][2]]

\* the path has a highway key and two or more references to known points
Qualifies(id, refs) ==
    "highway" \in DOMAIN SrcWayTags(id) /\ Len(KnownRefs(refs)) >= 2

\* the index with the path entered under its id, the other entries as they are
Entered(ix, id, refs) ==
    /\ \E i \in DOMAIN ix :
        /\ ix[i][1] = id
        /\ ix[i][2] = [tags |-> SrcWayTags(id), coords |-> KnownCoords(refs)]
    /\ \A i \in DOMAIN ways : ways[i][1] # id => ix[i] = ways[i]
    /\ Len(ix) = Len(ways) + (IF \E i \in DOMAIN ways : ways[i][1] = id
                              THEN 0 ELSE 1)

\* C17: a path read from the map file enters the index if and only if it has
\* a highway key and at least two of its references are points read before
\* it; the coordinates stored are those of the known references in path
\* order, the unknown ones dropped; any other path leaves the index as it is.
C17_IndexBuild ==
    /\ [](\A i \in DOMAIN ways :
            /\ "highway" \in DOMAIN ways[i][2].tags
            /\ Len(ways[i][2].coords) >= 2
            /\ \A p \in DOMAIN ways[i][2].coords :
                \E n \in DOMAIN nodes : nodes[n][2] = ways[i][2].coords[p])
    /\ [](pc = "extract" =>
            \A id \in SrcWayIds, refs \in RefSeqs :
                LET after == WayCallback(ways, nodes, id, refs, SrcWayTags(id))
                IN  IF Qualifies(id, refs) THEN Entered(after, id, refs)
                    ELSE after = ways)
    /\ [][ways' # ways =>
            \E id \in SrcWayIds, refs \in RefSeqs :
                Qualifies(id, refs) /\ Entered(ways', id, refs)]_vars

\* a path is in the index while one of the two points is still unread
C17_Witness ==
    /\ pc = "extract"
    /\ Len(nodes) = 1
    /\ ways # <<>>
    /\ \E refs \in RefSeqs :
        /\ Len(KnownRefs(refs)) < Len(refs)
        /\ ways[1][2].coords = KnownCoords(refs)

\* the number of ways written before a place of the sink
WaysBefore(q) == Cardinality({p \in 1..(q - 1) : IsWay(sink[p])})

\* C18: in the sequence of writes, every node id a way refers to was written
\* as a node earlier in the sequence; and a node stands after way i-1 and
\* before way i, i being the first line that refers to it.
C18_ReferentialIntegrity ==
    LET W == WrittenWays
    IN  /\ \A p \in DOMAIN sink :
            IsWay(sink[p]) =>
                \A r \in DOMAIN sink[p].nodes :
                    \E q \in 1..(p - 1) :
                        IsNode(sink[q]) /\ sink[q].id = sink[p].nodes[r]
        /\ \A q \in DOMAIN sink :
            IsNode(sink[q]) =>
                LET i == WaysBefore(q) + 1
                IN  /\ i \in DOMAIN W
                    /\ sink[q].id \in SetOf(W[i].nodes)
                    /\ \A k \in 1..(i - 1) : sink[q].id \notin SetOf(W[k].nodes)

\* the second way refers to a node written before the first way and to one
\* written between the two
C18_Witness ==
    LET W == WrittenWays
    IN  /\ Len(W) = 2
        /\ \E q \in DOMAIN sink :
            /\ IsNode(sink[q])
            /\ WaysBefore(q) = 0
            /\ sink[q].id \in SetOf(W[2].nodes)
        /\ \E q \in DOMAIN sink :
            /\ IsNode(sink[q])
            /\ WaysBefore(q) = 1

\* C19: an output file that exists is deleted before anything is read: it is
\* there only while no input has been opened, the step that removes it
\* touches no input, and a run that aborts before the writer is created, on
\* a malformed geometry file or an unreadable map file, leaves no output file.
C19_DeletedBeforeRead ==
    /\ [](out_file = "old" =>
            /\ pc \in {"main", "usage", "remove"}
            /\ gj_type = "unread" /\ features = <<>>
            /\ nodes = <<>> /\ ways = <<>>)
    /\ []((pc = "failed" /\ writer = "none") => out_file = "absent")
    /\ [][(out_file = "old" /\ out_file' # "old") =>
            /\ pc = "remove"
            /\ out_file' = "absent"
            /\ UNCHANGED <<gj_type, features, linestrings, nodes, ways,
                           writer, sink>>]_vars

\* the run has aborted on a malformed geometry file and there is no output file
C19_Witness ==
    /\ pc = "failed"
    /\ gj_type = "malformed"
    /\ writer = "none"
    /\ out_file = "absent"

=============================================================================
